---- MODULE Spec2Model ----
(***************************************************************************)
(* BallBalance (src/tasks/ball copy.py): the batched episode lifecycle of  *)
(* a vectorised task: pre_physics_step (reset of the flagged environments, *)
(* action accumulation), post_physics_step (progress, refresh,             *)
(* observations, reward and reset flags) and reset_idx.                    *)
(*                                                                         *)
(* Numbers are fixed point: lengths in millimetres, speeds in mm/s, joint  *)
(* angles in units of 5 degrees.  A reward is the exact fraction           *)
(* <<numerator, denominator>>; a square root is the integer floor root.    *)
(*                                                                         *)
(* Tensors are modelled per field with the shape the code gives the field: *)
(* root_states[env][row][component], dof_states[env][dof][pos|vel],        *)
(* sensor_tensor[env][sensor][component].  Rows, DOFs, sensors and         *)
(* observation slots keep the code's 0-based indices; the components of a  *)
(* row are a sequence, so python's v[a:b] is Slice(v, a, b).               *)
(***************************************************************************)
EXTENDS Integers, Sequences, FiniteSets, TLC

(* ---------------------------------------------------------------- bounds *)
MaxNumEnvs == 3
max_episode_length == 3

(* ------------------------------------------------------ program constants *)
sensors_per_env == 3
actors_per_env == 2
dofs_per_env == 6
numObservations == 24
numActions == 3
ball_radius == 100
min_d == 1
max_d == 500
min_height == 1000
max_height == 2000
min_speed_xy == 0
max_speed_xy == 0
vspeed == 5000
target_height == 700
tray_height == 559
dt == 1
action_speed_scale == 16

actuated_dof_indices == <<1, 3, 5>>
free_dofs == <<0, 2, 4>>

\* joint ranges of the asset file, "-45 45" (upper legs, DOFs 0,2,4) and
\* "-70 90" (lower legs, DOFs 1,3,5), in units of 5 degrees
bot_dof_lower_limits == [d \in 0..(dofs_per_env - 1) |-> IF d % 2 = 0 THEN -9 ELSE -14]
bot_dof_upper_limits == [d \in 0..(dofs_per_env - 1) |-> IF d % 2 = 0 THEN 9 ELSE 18]

VARIABLES
    num_envs,               \* cfg numEnvs
    pc,                     \* "pre" | "post": the next call of the step loop; "raised": an exception left it
    root_states,            \* [env][row][13]
    dof_states,             \* [env][dof][2]
    sensor_tensor,          \* [env][sensor][6]
    dof_position_targets,   \* [env][dof]
    obs_buf,                \* [env][0..23]
    rew_buf,                \* [env] -> <<num, den>>
    reset_buf,              \* [env] -> 0 | 1
    progress_buf,           \* [env]
    reset_env_ids,          \* the subset the last pre_physics_step handed to reset_idx
    sim_root_indices,       \* actor indices set_actor_root_state_tensor_indexed got in the last pre_physics_step
    sim_dof_indices,        \* actor indices set_dof_state_tensor_indexed got in the last pre_physics_step
    sim_dof_targets,        \* tensor of the last set_dof_position_target_tensor
    step_actions            \* the _actions of the step in progress, <<>> between steps

vars == <<num_envs, pc, root_states, dof_states, sensor_tensor, dof_position_targets,
          obs_buf, rew_buf, reset_buf, progress_buf, reset_env_ids,
          sim_root_indices, sim_dof_indices, sim_dof_targets, step_actions>>

Envs == 0..(num_envs - 1)
Rows == 0..(dofs_per_env - 1)
Dofs == 0..(dofs_per_env - 1)
Sensors == 0..(sensors_per_env - 1)

(* ----------------------------------------------------------- tensor views *)
\* python v[lo:hi] of a component sequence
Slice(v, lo, hi) == [i \in 1..(hi - lo) |-> v[lo + i]]

\* python v[lo:hi] = w
SetSlice(v, lo, hi, w) == [i \in 1..Len(v) |-> IF i > lo /\ i <= hi THEN w[i - lo] ELSE v[i]]

tray_positions(rs, e) == Slice(rs[e][0], 0, 3)
ball_positions(rs, e) == Slice(rs[e][1], 0, 3)
ball_orientations(rs, e) == Slice(rs[e][1], 3, 7)
ball_linvels(rs, e) == Slice(rs[e][1], 7, 10)
ball_angvels(rs, e) == Slice(rs[e][1], 10, 13)

dof_positions(ds, e) == [d \in Dofs |-> ds[e][d][1]]
dof_velocities(ds, e) == [d \in Dofs |-> ds[e][d][2]]

sensor_forces(st, e) == [s \in Sensors |-> Slice(st[e][s], 0, 3)]
sensor_torques(st, e) == [s \in Sensors |-> Slice(st[e][s], 3, 6)]

\* all_actor_indices = arange(actors_per_env * num_envs).view(num_envs, actors_per_env)
all_actor_indices(e) == {actors_per_env * e + a : a \in 0..(actors_per_env - 1)}
\* all_bot_indices = actors_per_env * arange(num_envs)
all_bot_indices(e) == actors_per_env * e

(* ------------------------------------------------- state at construction *)
ZeroRow == <<0, 0, 0, 0, 0, 0, 0, 0, 0, 0, 0, 0, 0>>

\* bot_pose (z = tray_height) and ball_pose (x = 0.2, z = 2.0), at rest
initial_root_states(e) ==
    [r \in Rows |->
        CASE r = 0 -> <<0, 0, tray_height, 0, 0, 0, 1, 0, 0, 0, 0, 0, 0>>
          [] r = 1 -> <<200, 0, 2000, 0, 0, 0, 1, 0, 0, 0, 0, 0, 0>>
          [] OTHER -> ZeroRow]

initial_dof_states(e) == [d \in Dofs |-> <<0, 0>>]

(* -------------------------------------------------------------- numerics *)
RECURSIVE SqrtSearch(_, _, _)
SqrtSearch(n, lo, hi) ==
    IF lo >= hi THEN lo
    ELSE LET mid == (lo + hi + 1) \div 2
         IN IF mid * mid <= n THEN SqrtSearch(n, mid, hi) ELSE SqrtSearch(n, lo, mid - 1)

\* torch.sqrt on the fixed-point grid: the floor root
sqrt(n) == SqrtSearch(n, 0, 46340)

Min(a, b) == IF a < b THEN a ELSE b
Max(a, b) == IF a > b THEN a ELSE b

\* isaacgym tensor_clamp(t, min_t, max_t) = max(min(t, max_t), min_t)
tensor_clamp(t, min_t, max_t) == Max(Min(t, max_t), min_t)

(* ---------------------------------------------------- compute_observations *)
\* obs_buf[..., a:b] = field, for one environment; x[..., k] takes component k
\* of the last axis, so sensor_forces[..., 0] is component 0 of every sensor
compute_observations(ds, rs, st, e) ==
    [i \in 0..(numObservations - 1) |->
        IF i < 3 THEN dof_positions(ds, e)[actuated_dof_indices[i + 1]]
        ELSE IF i < 6 THEN dof_velocities(ds, e)[actuated_dof_indices[i - 3 + 1]]
        ELSE IF i < 9 THEN ball_positions(rs, e)[i - 6 + 1]
        ELSE IF i < 12 THEN ball_linvels(rs, e)[i - 9 + 1]
        ELSE IF i < 15 THEN sensor_forces(st, e)[i - 12][0 + 1]
        ELSE IF i < 18 THEN sensor_torques(st, e)[i - 15][0 + 1]
        ELSE IF i < 21 THEN sensor_torques(st, e)[i - 18][1 + 1]
        ELSE sensor_torques(st, e)[i - 21][2 + 1]]

(* ------------------------------------------------------ compute_bot_reward *)
\* 1.0 on the fixed-point grid
One == 1000

\* the distance to the origin, the target height forgotten
ball_dist_origin(p) == sqrt(p[1] * p[1] + p[3] * p[3] + p[2] * p[2])

ball_dist(p) ==
    sqrt(p[1] * p[1] + (p[3] - target_height) * (p[3] - target_height) + p[2] * p[2])

ball_speed(v) == sqrt(v[1] * v[1] + v[2] * v[2] + v[3] * v[3])

\* reward = pos_reward * speed_reward = 1/(1 + ball_dist) * 1/(1 + ball_speed)
compute_bot_reward_reward(p, v) ==
    <<One * One, (One + ball_dist(p)) * (One + ball_speed(v))>>

\* the second torch.where reading reset_buf again instead of the first result
compute_bot_reward_reset_lost(z, reset, progress) ==
    IF 2 * z < ball_radius * 3 THEN 1 ELSE reset

\* the two torch.where of the reset flag, for one environment
compute_bot_reward_reset(z, reset, progress) ==
    LET timeout == IF progress >= max_episode_length - 1 THEN 1 ELSE reset
    IN IF 2 * z < ball_radius * 3 THEN 1 ELSE timeout

(* ----------------------------------------------------------------- reset_idx *)
\* (upper - lower) * torch.rand + lower, rand in [0, 1): the ends of the range
torch_rand_float(lower, upper) == IF lower = upper THEN {lower} ELSE {lower, upper - 1}

\* (cos a, sin a) of a random angle: two unit vectors
torch_random_dir_2 == {<<1, 0>>, <<0, -1>>}

\* buf[:] = 0
clear_whole_buffer(buf, env_ids) == [e \in DOMAIN buf |-> 0]

\* buf[env_ids] = 0
clear_buffer(buf, env_ids) == [e \in DOMAIN buf |-> IF e \in env_ids THEN 0 ELSE buf[e]]

\* self.root_states[env_ids] = self.initial_root_states[env_ids]
restore_root_states(rs, env_ids) ==
    [e \in DOMAIN rs |-> IF e \in env_ids THEN initial_root_states(e) ELSE rs[e]]

\* self.ball_positions[env_ids, 0] = hpos[..., 0]; self.ball_positions[env_ids, 1] = hpos[..., 1]
put_ball_hpos(rs, env_ids, hpos) ==
    [e \in DOMAIN rs |->
        IF e \in env_ids
        THEN [rs[e] EXCEPT ![1] = SetSlice(@, 0, 2, hpos[e])]
        ELSE rs[e]]

\* lines 380-386: height, orientation, linear and angular velocity of the ball
put_ball_rest(rs, env_ids, vpos, hvels, vspeeds) ==
    [e \in DOMAIN rs |->
        IF e \in env_ids
        THEN [rs[e] EXCEPT ![1] =
                SetSlice(
                    SetSlice(
                        SetSlice(
                            SetSlice(@, 2, 3, <<vpos[e]>>),
                            3, 7, <<0, 0, 0, 1>>),
                        7, 10, <<hvels[e][1], hvels[e][2], vspeeds[e]>>),
                    10, 13, <<0, 0, 0>>)]
        ELSE rs[e]]

\* hvels = - speedscales * hspeeds * dirs, speedscales = (dists - min_d) / (max_d - min_d)
hvel(dist, hspeed, dir) ==
    <<0 - (((dist - min_d) * hspeed * dir[1]) \div (max_d - min_d)),
      0 - (((dist - min_d) * hspeed * dir[2]) \div (max_d - min_d))>>

\* self.ball_positions[env_ids, 2] = vpos[...] assigns a (num_resets, 1) value to a
\* (num_resets,) index result: torch strips the leading 1 of a (1, 1) value and
\* takes it, and raises "shape mismatch" for num_resets >= 2
vpos_assignable(env_ids) == Cardinality(env_ids) < 2

\* the outcomes of reset_idx(env_ids) on the state s, one per result of the draws:
\* it raises at line 380, or runs to its end
reset_idx(env_ids, s) ==
    UNION {
        LET hpos == [e \in env_ids |-> <<dists[e] * dirs[e][1], dists[e] * dirs[e][2]>>]
            restored == restore_root_states(s.root_states, env_ids)
            withh == put_ball_hpos(restored, env_ids, hpos)
        IN IF ~vpos_assignable(env_ids)
           THEN {[s EXCEPT !.raised = TRUE, !.root_states = withh]}
           ELSE { LET hvels == [e \in env_ids |-> hvel(dists[e], hspeeds[e], dirs[e])]
                      vspeeds == [e \in env_ids |-> 0 - vsp[e]]
                  IN [s EXCEPT
                        !.root_states = put_ball_rest(withh, env_ids, vpos, hvels, vspeeds),
                        !.sim_root_indices = UNION {all_actor_indices(e) : e \in env_ids},
                        !.sim_dof_indices = {all_bot_indices(e) : e \in env_ids},
                        !.reset_buf = clear_buffer(s.reset_buf, env_ids),
                        !.progress_buf = clear_buffer(s.progress_buf, env_ids)] :
                  vpos \in [env_ids -> torch_rand_float(min_height, max_height)],
                  hspeeds \in [env_ids -> torch_rand_float(min_speed_xy, max_speed_xy)],
                  vsp \in [env_ids -> torch_rand_float(vspeed, vspeed)] } :
        dists \in [env_ids -> torch_rand_float(min_d, max_d)],
        dirs \in [env_ids -> torch_random_dir_2] }

\* the fields reset_idx reads and writes
ResetState ==
    [raised |-> FALSE, root_states |-> root_states, reset_buf |-> reset_buf,
     progress_buf |-> progress_buf, sim_root_indices |-> {}, sim_dof_indices |-> {}]

(* ---------------------------------------------------------- pre_physics_step *)
\* reset_buf.nonzero()
nonzero(buf) == {e \in DOMAIN buf : buf[e] # 0}

\* the place of DOF d in actuated_indices, 0 when it is not actuated
ActuatedPlace(d) ==
    IF \E k \in 1..numActions : actuated_dof_indices[k] = d
    THEN CHOOSE k \in 1..numActions : actuated_dof_indices[k] = d
    ELSE 0

\* lines 418-420: accumulate on the actuated DOFs, clamp every DOF, zero the reset rows
next_dof_position_targets(targets, actions, env_ids) ==
    LET added == [e \in DOMAIN targets |-> [d \in Dofs |->
                    IF ActuatedPlace(d) # 0
                    THEN targets[e][d] + dt * action_speed_scale * actions[e][ActuatedPlace(d)]
                    ELSE targets[e][d]]]
        clamped == [e \in DOMAIN targets |-> [d \in Dofs |->
                    tensor_clamp(added[e][d], bot_dof_lower_limits[d], bot_dof_upper_limits[d])]]
    IN [e \in DOMAIN targets |-> IF e \in env_ids THEN [d \in Dofs |-> 0] ELSE clamped[e]]

pre_physics_step(_actions) ==
    /\ pc = "pre"
    /\ step_actions' = _actions
    /\ LET env_ids == nonzero(reset_buf)
       IN /\ reset_env_ids' = env_ids
          /\ \E out \in (IF Cardinality(env_ids) > 0
                         THEN reset_idx(env_ids, ResetState)
                         ELSE {ResetState}) :
                /\ root_states' = out.root_states
                /\ reset_buf' = out.reset_buf
                /\ progress_buf' = out.progress_buf
                /\ sim_root_indices' = out.sim_root_indices
                /\ sim_dof_indices' = out.sim_dof_indices
                /\ IF out.raised
                   THEN /\ pc' = "raised"
                        /\ UNCHANGED <<dof_position_targets, sim_dof_targets>>
                   ELSE /\ pc' = "post"
                        /\ dof_position_targets' =
                              next_dof_position_targets(dof_position_targets, _actions, env_ids)
                        /\ sim_dof_targets' = dof_position_targets'
    /\ UNCHANGED <<num_envs, dof_states, sensor_tensor, obs_buf, rew_buf>>

(* --------------------------------------------------------- post_physics_step *)
\* what the three refresh calls can bring back from the engine for one environment
EngineOutcomes == {"balanced", "fallen"}

engine_ball(o) ==
    CASE o = "balanced" -> <<0, 0, 700, 0, 0, 0, 1, 0, 0, 0, 0, 0, 0>>
      [] o = "fallen" -> <<600, 0, 100, 1, 0, 0, 0, 300, 0, -400, 0, 3, 0>>

engine_root_states(o) ==
    [r \in Rows |->
        CASE r = 0 -> <<3, -4, tray_height - 9, 0, 1, 0, 0, 5, 6, 7, 8, 9, 10>>
          [] r = 1 -> engine_ball(o)
          [] OTHER -> [i \in 1..13 |-> 20 * r + i]]

engine_dof_states(o) == [d \in Dofs |-> <<10 + d, 20 + d>>]

engine_sensor_tensor(o) == [s \in Sensors |-> [i \in 1..6 |-> 100 + 10 * s + (i - 1)]]

compute_reward(rs, rb, pb) ==
    [rew |-> [e \in DOMAIN rs |->
                compute_bot_reward_reward(ball_positions(rs, e), ball_linvels(rs, e))],
     reset |-> [e \in DOMAIN rs |->
                compute_bot_reward_reset(ball_positions(rs, e)[3], rb[e], pb[e])]]

post_physics_step(engine) ==
    /\ pc = "post"
    /\ progress_buf' = [e \in Envs |-> progress_buf[e] + 1]
    /\ root_states' = [e \in Envs |-> engine_root_states(engine[e])]
    /\ dof_states' = [e \in Envs |-> engine_dof_states(engine[e])]
    /\ sensor_tensor' = [e \in Envs |-> engine_sensor_tensor(engine[e])]
    /\ obs_buf' = [e \in Envs |-> compute_observations(dof_states', root_states', sensor_tensor', e)]
    /\ LET r == compute_reward(root_states', reset_buf, progress_buf')
       IN /\ rew_buf' = r.rew
          /\ reset_buf' = r.reset
    /\ pc' = "pre"
    /\ step_actions' = <<>>
    /\ UNCHANGED <<num_envs, dof_position_targets, reset_env_ids,
                   sim_root_indices, sim_dof_indices, sim_dof_targets>>

(* ------------------------------------------------------------- the step loop *)
\* the actions of one step, dt * action_speed_scale * a in units of 5 degrees
Actions == {<<0, 0, 0>>, <<1, -2, 2>>}

Init ==
    /\ num_envs \in 1..MaxNumEnvs
    /\ pc = "pre"
    /\ root_states = [e \in Envs |-> initial_root_states(e)]
    /\ dof_states = [e \in Envs |-> initial_dof_states(e)]
    /\ sensor_tensor = [e \in Envs |-> [s \in Sensors |-> <<0, 0, 0, 0, 0, 0>>]]
    /\ dof_position_targets = [e \in Envs |-> [d \in Dofs |-> 0]]
    /\ obs_buf = [e \in Envs |-> [i \in 0..(numObservations - 1) |-> 0]]
    /\ rew_buf = [e \in Envs |-> <<0, 1>>]
    /\ reset_buf \in [Envs -> {0, 1}]
    /\ progress_buf = [e \in Envs |-> 0]
    /\ reset_env_ids = {}
    /\ sim_root_indices = {}
    /\ sim_dof_indices = {}
    /\ sim_dof_targets = [e \in Envs |-> [d \in Dofs |-> 0]]
    /\ step_actions = <<>>

Next ==
    \/ \E _actions \in [Envs -> Actions] : pre_physics_step(_actions)
    \/ \E engine \in [Envs -> EngineOutcomes] : post_physics_step(engine)

Spec == Init /\ [][Next]_vars

(* ------------------------------------------- compute_reward on given tensors *)
MaxRewardEnvs == 2

\* ball rows handed to compute_reward: at the target at rest, at the height
\* 1.5 * ball_radius, just below it and moving, and high and falling
BallSamples ==
    { <<0, 0, 700, 0, 0, 0, 1, 0, 0, 0, 0, 0, 0>>,
      <<300, 400, 150, 0, 0, 0, 1, 0, 0, 0, 0, 0, 0>>,
      <<0, 0, 149, 0, 0, 0, 1, 300, 0, -400, 0, 0, 0>>,
      <<0, 0, 2000, 0, 0, 0, 1, 0, 0, -5000, 0, 0, 0>> }

InitReward ==
    /\ num_envs \in 1..MaxRewardEnvs
    /\ pc = "reward"
    /\ root_states \in [Envs -> {[initial_root_states(0) EXCEPT ![1] = b] : b \in BallSamples}]
    /\ dof_states = [e \in Envs |-> initial_dof_states(e)]
    /\ sensor_tensor = [e \in Envs |-> [s \in Sensors |-> <<0, 0, 0, 0, 0, 0>>]]
    /\ dof_position_targets = [e \in Envs |-> [d \in Dofs |-> 0]]
    /\ obs_buf = [e \in Envs |-> [i \in 0..(numObservations - 1) |-> 0]]
    /\ rew_buf = [e \in Envs |-> <<0, 1>>]
    /\ reset_buf \in [Envs -> {0, 1}]
    /\ progress_buf \in [Envs -> 0..max_episode_length]
    /\ reset_env_ids = {}
    /\ sim_root_indices = {}
    /\ sim_dof_indices = {}
    /\ sim_dof_targets = [e \in Envs |-> [d \in Dofs |-> 0]]
    /\ step_actions = <<>>

\* BallBalance.compute_reward: rew_buf[:], reset_buf[:] = compute_bot_reward(...)
call_compute_reward ==
    /\ pc = "reward"
    /\ LET r == compute_reward(root_states, reset_buf, progress_buf)
       IN /\ rew_buf' = r.rew
          /\ reset_buf' = r.reset
    /\ pc' = "rewarded"
    /\ UNCHANGED <<num_envs, root_states, dof_states, sensor_tensor, dof_position_targets,
                   obs_buf, progress_buf, reset_env_ids, sim_root_indices, sim_dof_indices,
                   sim_dof_targets, step_actions>>

SpecReward == InitReward /\ [][call_compute_reward]_vars

(* ------------------------------------------------ reset_idx on given tensors *)
MaxResetEnvs == 3

\* a state in the middle of the episodes: the tensors as the engine left them,
\* every counter at 1, any set of reset flags
InitReset ==
    /\ num_envs \in 1..MaxResetEnvs
    /\ pc = "pre"
    /\ root_states = [e \in Envs |-> engine_root_states("fallen")]
    /\ dof_states = [e \in Envs |-> engine_dof_states("fallen")]
    /\ sensor_tensor = [e \in Envs |-> engine_sensor_tensor("fallen")]
    /\ dof_position_targets = [e \in Envs |-> [d \in Dofs |-> 0]]
    /\ obs_buf = [e \in Envs |-> compute_observations(dof_states, root_states, sensor_tensor, e)]
    /\ rew_buf = [e \in Envs |-> <<0, 1>>]
    /\ reset_buf \in [Envs -> {0, 1}]
    /\ progress_buf = [e \in Envs |-> 1]
    /\ reset_env_ids = {}
    /\ sim_root_indices = {}
    /\ sim_dof_indices = {}
    /\ sim_dof_targets = [e \in Envs |-> [d \in Dofs |-> 0]]
    /\ step_actions = <<>>

\* BallBalance.reset_idx called on its own
call_reset_idx(env_ids) ==
    /\ pc = "pre"
    /\ reset_env_ids' = env_ids
    /\ \E out \in reset_idx(env_ids, ResetState) :
          /\ root_states' = out.root_states
          /\ reset_buf' = out.reset_buf
          /\ progress_buf' = out.progress_buf
          /\ sim_root_indices' = out.sim_root_indices
          /\ sim_dof_indices' = out.sim_dof_indices
          /\ pc' = IF out.raised THEN "raised" ELSE "returned"
    /\ UNCHANGED <<num_envs, dof_states, sensor_tensor, dof_position_targets, obs_buf,
                   rew_buf, sim_dof_targets, step_actions>>

NextReset ==
    \/ \E env_ids \in (SUBSET Envs) \ {{}} : call_reset_idx(env_ids)
    \/ \E _actions \in [Envs -> Actions] : pre_physics_step(_actions)

SpecReset == InitReset /\ [][NextReset]_vars

(* ================================================================== claims *)
BallZ(rs, e) == ball_positions(rs, e)[3]
Fell(rs, e) == 2 * BallZ(rs, e) < 3 * ball_radius
TimedOut(pb, e) == pb[e] >= max_episode_length - 1

\* C1: the reset flag compute_bot_reward returns is 1 on timeout (progress_buf >=
\* max_episode_length - 1) whatever the ball does, 1 when ball.z < 1.5 * ball_radius
\* whatever the progress, and otherwise the flag passed in; a flag of 1 never
\* comes back as 0.
C1_ResetFlag ==
    [][pc = "reward" =>
        \A e \in Envs :
            /\ (TimedOut(progress_buf, e) => reset_buf'[e] = 1)
            /\ (Fell(root_states, e) => reset_buf'[e] = 1)
            /\ (~TimedOut(progress_buf, e) /\ ~Fell(root_states, e)
                    => reset_buf'[e] = reset_buf[e])
            /\ (reset_buf[e] = 1 => reset_buf'[e] = 1)]_vars

\* a flag of 1 carried forward beside a flag raised by the timeout alone and a
\* flag left at 0
C1_Witness ==
    /\ pc = "rewarded"
    /\ \E e \in Envs : reset_buf[e] = 1 /\ ~TimedOut(progress_buf, e) /\ ~Fell(root_states, e)
    /\ \E e \in Envs :
          \/ reset_buf[e] = 1 /\ TimedOut(progress_buf, e) /\ ~Fell(root_states, e)
          \/ reset_buf[e] = 0

IsRoot(r, n) == r * r <= n /\ n < (r + 1) * (r + 1)
RootOf(n) == CHOOSE r \in 0..(vspeed + max_height) : IsRoot(r, n)
SquaredDist(p) ==
    p[1] * p[1] + p[2] * p[2] + (p[3] - target_height) * (p[3] - target_height)
SquaredNorm(v) == v[1] * v[1] + v[2] * v[2] + v[3] * v[3]

ActorEnv(a) == a \div actors_per_env

\* C2: reset_idx on a subset, called on its own or by pre_physics_step, leaves the
\* root states, the progress counter and the reset flag of every environment
\* outside the subset as they were, and its indexed engine writes name only
\* actors of environments of the subset.
C2_Frame ==
    [][pc = "pre" =>
        /\ pc' = "post" => reset_env_ids' = nonzero(reset_buf)
        /\ \A e \in Envs \ reset_env_ids' :
                /\ root_states'[e] = root_states[e]
                /\ progress_buf'[e] = progress_buf[e]
                /\ reset_buf'[e] = reset_buf[e]
        /\ \A a \in sim_root_indices' \cup sim_dof_indices' : ActorEnv(a) \in reset_env_ids']_vars

\* a reset that ran to its end on a subset, beside a flagged environment outside
\* the subset that kept its flag, its counter and its root states
C2_Witness ==
    /\ pc = "returned"
    /\ reset_env_ids # {}
    /\ sim_root_indices # {} /\ sim_dof_indices # {}
    /\ \E e \in Envs \ reset_env_ids :
          /\ reset_buf[e] = 1
          /\ progress_buf[e] > 0
          /\ root_states[e] # initial_root_states(e)

\* C3: after reset_idx ran on a subset, every environment of the subset has the
\* root state of its robot and its whole DOF state (6 positions, 6 velocities)
\* equal to the ones recorded at construction; only the ball row differs.
C3_Restored ==
    pc = "post" =>
        \A e \in reset_env_ids :
            /\ \A r \in Rows \ {1} : root_states[e][r] = initial_root_states(e)[r]
            /\ dof_states[e] = initial_dof_states(e)

\* the layout the observation vector is documented to have
DocumentedObservation(ds, rs, st, e) ==
    [i \in 0..(numObservations - 1) |->
        IF i < 3 THEN ds[e][actuated_dof_indices[i + 1]][1]
        ELSE IF i < 6 THEN ds[e][actuated_dof_indices[i - 2]][2]
        ELSE IF i < 9 THEN rs[e][1][i - 5]
        ELSE IF i < 12 THEN rs[e][1][7 + (i - 8)]
        ELSE IF i < 15 THEN st[e][0][i - 11]
        ELSE IF i < 18 THEN st[e][0][3 + (i - 14)]
        ELSE IF i < 21 THEN st[e][1][3 + (i - 17)]
        ELSE st[e][2][3 + (i - 20)]]

\* C4: compute_observations writes, per environment, 0:3 the positions of DOFs
\* 1,3,5, 3:6 their velocities, 6:9 the ball position, 9:12 the ball linear
\* velocity, 12:15 the force of sensor 0, 15:18 the torque of sensor 0, 18:21 the
\* torque of sensor 1 and 21:24 the torque of sensor 2.
C4_Layout ==
    [][pc = "post" =>
        \A e \in Envs :
            obs_buf'[e] = DocumentedObservation(dof_states', root_states', sensor_tensor', e)]_vars

\* C5: after reset_idx ran on a subset, every ball of the subset has its height
\* in [1.0, 2.0], its horizontal distance from the origin in [0.001, 0.5], the
\* linear velocity (0, 0, -5.0), no angular velocity and the identity orientation.
C5_Sampled ==
    (pc \in {"post", "raised"}) =>
        \A e \in reset_env_ids :
            LET p == ball_positions(root_states, e)
            IN /\ min_height <= p[3] /\ p[3] <= max_height
               /\ min_d * min_d <= p[1] * p[1] + p[2] * p[2]
               /\ p[1] * p[1] + p[2] * p[2] <= max_d * max_d
               /\ ball_linvels(root_states, e) = <<0, 0, 0 - vspeed>>
               /\ ball_angvels(root_states, e) = <<0, 0, 0>>
               /\ ball_orientations(root_states, e) = <<0, 0, 0, 1>>

\* C6: a reset flag goes from 0 to 1 only in compute_reward, on timeout or when
\* the ball fell; from 1 to 0 only in reset_idx; and every flag set when
\* pre_physics_step begins is cleared in it, with the progress counter, so that
\* no flag is set when a pre_physics_step ends.
C6_Lifecycle ==
    [][\A e \in Envs :
        /\ (reset_buf[e] = 0 /\ reset_buf'[e] = 1
                => pc = "post" /\ (TimedOut(progress_buf', e) \/ Fell(root_states', e)))
        /\ (reset_buf[e] = 1 /\ reset_buf'[e] = 0 => pc = "pre" /\ e \in reset_env_ids')
        /\ (pc = "pre" => reset_buf'[e] = 0)
        /\ (pc = "pre" /\ reset_buf[e] = 1 => progress_buf'[e] = 0)]_vars

\* the target the claim gives DOF d of environment e after a step with the
\* actions a
ClaimedTarget(targets, a, e, d) ==
    IF \E k \in 1..numActions : actuated_dof_indices[k] = d
    THEN LET k == CHOOSE j \in 1..numActions : actuated_dof_indices[j] = d
             sum == targets[e][d] + dt * action_speed_scale * a[e][k]
         IN IF sum < bot_dof_lower_limits[d] THEN bot_dof_lower_limits[d]
            ELSE IF sum > bot_dof_upper_limits[d] THEN bot_dof_upper_limits[d]
            ELSE sum
    ELSE targets[e][d]

\* C7: in pre_physics_step every environment that is not reset gets, on DOFs
\* 1,3,5, clamp(previous target + dt * action_speed_scale * action, lower, upper)
\* and keeps its previous target on DOFs 0,2,4; every target lies within the
\* joint limits of its DOF at all times.
C7_Targets ==
    [][/\ \A e \in Envs : \A d \in Dofs :
            /\ bot_dof_lower_limits[d] <= dof_position_targets'[e][d]
            /\ dof_position_targets'[e][d] <= bot_dof_upper_limits[d]
       /\ pc = "pre" =>
            \A e \in Envs \ nonzero(reset_buf) : \A d \in Dofs :
                dof_position_targets'[e][d]
                    = ClaimedTarget(dof_position_targets, step_actions', e, d)]_vars

\* C8: every environment reset in a pre_physics_step ends the step with its 6
\* targets at 0, whatever they were and whatever action it got, and the targets
\* of the other environments are not zeroed.
C8_ZeroedTargets ==
    [][pc = "pre" =>
        /\ \A e \in nonzero(reset_buf) : \A d \in Dofs : dof_position_targets'[e][d] = 0
        /\ \A e \in Envs \ nonzero(reset_buf) :
              (/\ \E d \in Dofs : dof_position_targets[e][d] # 0
               /\ \E d \in Dofs : ClaimedTarget(dof_position_targets, step_actions', e, d) # 0)
                 => \E d \in Dofs : dof_position_targets'[e][d] # 0]_vars

\* C10: a progress counter never exceeds max_episode_length - 1, and an
\* environment whose counter reached max_episode_length - 1 is reset in the
\* pre_physics_step that follows.
C10_EpisodeLength ==
    [][\A e \in Envs :
        /\ progress_buf'[e] <= max_episode_length - 1
        /\ (pc = "pre" /\ progress_buf[e] >= max_episode_length - 1
               => /\ e \in reset_env_ids'
                  /\ progress_buf'[e] = 0
                  /\ reset_buf'[e] = 0)]_vars

====
